---- MODULE Spec2Model ----
(***************************************************************************)
(* A model of rust-bitcoin-scriptexec's script utilities:                  *)
(*   src/src/timelock_utils.rs  from_num, read_scriptint,                  *)
(*                              read_scriptint_size, scriptint_parse,      *)
(*                              scriptint_vec, write_scriptint             *)
(*   src/src/parse_utils.rs     parse_asm, try_parse_raw_hex, iter_words   *)
(*                                                                         *)
(* TLC's integers are 32 bits wide, the program's are 64: an i64 or u64 is *)
(* modelled as its 8 bytes, least significant first (two's complement for  *)
(* i64), a u32 as its 4 bytes, and the arithmetic of the program is done   *)
(* on those bytes, with the overflow the machine would see.  Text is a     *)
(* TLA+ string, read as a sequence of characters.                          *)
(***************************************************************************)
EXTENDS Integers, Sequences, FiniteSets, TLC

VARIABLES
    call,             \* the function or composition this run exercises
    pc,               \* where the run stands
    n,                \* i64 argument (write_scriptint, scriptint_vec, from_num)
    v,                \* byte slice argument (read_scriptint, read_scriptint_size)
    max_size,         \* size argument of the decoders
    minimal,          \* minimal argument of the decoders
    overflow_checks,  \* the build: TRUE when integer overflow panics (debug profile)
    item,             \* bytes produced by scriptint_vec, read back by the round trip
    ret,              \* the value the last call returned
    asm,              \* parse_asm's input text
    words,            \* parse_asm: the sequence iter_words(asm) yields
    cursor,           \* parse_asm: how many words the iterator has yielded
    builder,          \* parse_asm: the script bytes built so far
    buf               \* parse_asm: the reused hex scratch buffer

vars == <<call, pc, n, v, max_size, minimal, overflow_checks, item, ret,
          asm, words, cursor, builder, buf>>

codecVars == <<n, v, max_size, minimal, overflow_checks, item>>
asmVars == <<asm, words, cursor, builder, buf>>

(***************************************************************************)
(* Machine integers as byte tuples.                                        *)
(***************************************************************************)
RECURSIVE BitAnd(_, _)
BitAnd(a, b) ==
    IF a = 0 \/ b = 0 THEN 0
    ELSE (a % 2) * (b % 2) + 2 * BitAnd(a \div 2, b \div 2)

RECURSIVE BitOr(_, _)
BitOr(a, b) ==
    IF a = 0 THEN b
    ELSE IF b = 0 THEN a
    ELSE (IF a % 2 = 1 \/ b % 2 = 1 THEN 1 ELSE 0) + 2 * BitOr(a \div 2, b \div 2)

RECURSIVE Pow2(_)
Pow2(k) == IF k = 0 THEN 1 ELSE 2 * Pow2(k - 1)

Zero64 == <<0, 0, 0, 0, 0, 0, 0, 0>>
One64 == <<1, 0, 0, 0, 0, 0, 0, 0>>
I64_MAX == <<255, 255, 255, 255, 255, 255, 255, 127>>
I64_MIN == <<0, 0, 0, 0, 0, 0, 0, 128>>

\* A byte widened to 64 bits (`x as i64`, `x as u64` of a u8).
FromByte(b) == <<b, 0, 0, 0, 0, 0, 0, 0>>

\* A function over 1..k as the tuple it is (TLC then holds its elements, not
\* the expression that computes them).
Tup(f) == f \o <<>>

IsNeg(a) == a[Len(a)] >= 128
IsZeroW(a) == \A i \in 1..Len(a) : a[i] = 0

AndW(a, b) == Tup([i \in 1..Len(a) |-> BitAnd(a[i], b[i])])
NotW(a) == Tup([i \in 1..Len(a) |-> 255 - a[i]])

RECURSIVE CarryIn(_, _, _)
CarryIn(a, b, i) ==
    IF i = 1 THEN 0 ELSE (a[i - 1] + b[i - 1] + CarryIn(a, b, i - 1)) \div 256

\* Wrapping addition, subtraction and negation of two's complement words.
AddW(a, b) == Tup([i \in 1..Len(a) |-> (a[i] + b[i] + CarryIn(a, b, i)) % 256])
NegW(a) == AddW(NotW(a), Tup([i \in 1..Len(a) |-> IF i = 1 THEN 1 ELSE 0]))
SubW(a, b) == AddW(a, NegW(b))

\* Whether the signed operation leaves the range of the word.
AddOverflows(a, b) == IsNeg(a) = IsNeg(b) /\ IsNeg(AddW(a, b)) # IsNeg(a)
SubOverflows(a, b) == IsNeg(a) # IsNeg(b) /\ IsNeg(SubW(a, b)) # IsNeg(a)
NegOverflows(a) == IsNeg(a) /\ IsNeg(NegW(a))

\* a << k, bits shifted out at the top are lost (0 <= k < 8 * Len(a)).
ShlW(a, k) ==
    LET q == k \div 8
        r == k % 8
        at(j) == IF j >= 1 THEN a[j] ELSE 0
    IN  Tup([i \in 1..Len(a) |->
            ((at(i - q) * Pow2(r)) % 256) + (at(i - q - 1) \div Pow2(8 - r))])

\* a >> 8 of an unsigned word.
Shr8(a) == Tup([i \in 1..Len(a) |-> IF i < Len(a) THEN a[i + 1] ELSE 0])

\* abs > 0xFF of an unsigned word.
GtFF(a) == \E i \in 2..Len(a) : a[i] # 0

\* The i64 of a small integer k (|k| < 2^31), for writing inputs down.
RECURSIVE NatBytes(_, _)
NatBytes(k, w) == IF w = 0 THEN <<>> ELSE <<k % 256>> \o NatBytes(k \div 256, w - 1)
I64(k) == IF k >= 0 THEN NatBytes(k, 8) ELSE NegW(NatBytes(-k, 8))

Panic(why) == [kind |-> "Panic", why |-> why]
Ok(x) == [kind |-> "Ok", val |-> x]
Err(e) == [kind |-> "Err", err |-> e]

(***************************************************************************)
(* timelock_utils.rs: from_num                                             *)
(***************************************************************************)
LOCK_TIME_DISABLE_FLAG_MASK == <<0, 0, 0, 128>>   \* 0x80000000
LOCK_TYPE_MASK == <<0, 0, 64, 0>>                 \* 0x00400000

\* u32::try_from(num).ok()
u32_try_from(num) ==
    IF \A i \in 5..8 : num[i] = 0
    THEN [kind |-> "Some", val |-> SubSeq(num, 1, 4)]
    ELSE [kind |-> "None"]

from_num_type_wrong(num) ==
    LET t == u32_try_from(num) IN
    IF t.kind = "None" THEN [kind |-> "None"]
    ELSE LET int == t.val
             low16 == int[1] + 256 * int[2]
         IN  IF ~IsZeroW(AndW(int, LOCK_TIME_DISABLE_FLAG_MASK))
             THEN [kind |-> "None"]
             ELSE IF ~IsZeroW(AndW(int, <<0, 0, 128, 0>>))
                  THEN [kind |-> "Some", tag |-> "Time", value |-> low16]
                  ELSE [kind |-> "Some", tag |-> "Height", value |-> low16]

from_num(num) ==
    LET t == u32_try_from(num) IN
    IF t.kind = "None" THEN [kind |-> "None"]
    ELSE LET int == t.val
             low16 == int[1] + 256 * int[2]
         IN  IF ~IsZeroW(AndW(int, LOCK_TIME_DISABLE_FLAG_MASK))
             THEN [kind |-> "None"]
             ELSE IF ~IsZeroW(AndW(int, LOCK_TYPE_MASK))
                  THEN [kind |-> "Some", tag |-> "Time", value |-> low16]
                  ELSE [kind |-> "Some", tag |-> "Height", value |-> low16]

(***************************************************************************)
(* timelock_utils.rs: the scriptint decoder                                *)
(***************************************************************************)
\* v.iter().fold((0, 0), |(acc, sh), n| (acc + ((*n as i64) << sh), sh + 8)),
\* from byte i on; the addition panics on overflow when the build checks it.
\* A shift by 64 or more (a slice of 9 bytes, which read_scriptint_size never
\* passes on) panics too, or takes the shift amount modulo 64.
RECURSIVE scriptint_fold(_, _, _, _, _)
scriptint_fold(s, i, acc, sh, oc) ==
    IF i > Len(s) THEN [panic |-> FALSE, acc |-> acc, sh |-> sh]
    ELSE LET term == ShlW(FromByte(s[i]), sh % 64) IN
         IF sh >= 64 /\ oc THEN [panic |-> TRUE, acc |-> acc, sh |-> sh]
         ELSE IF AddOverflows(acc, term) /\ oc
              THEN [panic |-> TRUE, acc |-> acc, sh |-> sh]
              ELSE scriptint_fold(s, i + 1, AddW(acc, term), sh + 8, oc)

\* The shift of line 106 takes its amount modulo 64 as well when the build
\* does not check it (with the check, the fold has panicked before).
scriptint_parse(s, oc) ==
    LET f == scriptint_fold(s, 1, Zero64, 0, oc) IN
    IF f.panic THEN Panic("overflow")
    ELSE IF BitAnd(s[Len(s)], 128) # 0
         THEN LET bit == ShlW(One64, (f.sh - 1) % 64)
                  mask == SubW(bit, One64)
                  masked == AndW(f.acc, mask)
              IN  IF oc /\ (SubOverflows(bit, One64) \/ NegOverflows(masked))
                  THEN Panic("overflow")
                  ELSE Ok(NegW(masked))
         ELSE Ok(f.acc)

read_scriptint_size(s, size, min, oc) ==
    IF size > 8 THEN Panic("assert")
    ELSE IF Len(s) > size THEN Err("NumericOverflow")
    ELSE IF Len(s) = 0 THEN Ok(Zero64)
    ELSE IF min /\ BitAnd(s[Len(s)], 127) = 0
            /\ (Len(s) <= 1 \/ BitAnd(s[Len(s) - 1], 128) = 0)
         THEN Err("NonMinimalPush")
         ELSE scriptint_parse(s, oc)

read_scriptint(s, size, min, oc) ==
    LET r == read_scriptint_size(s, size, min, oc) IN
    IF r.kind = "Err"
    THEN IF r.err = "NonMinimalPush" THEN Err("MinimalData")
         ELSE Err("ScriptIntNumericOverflow")
    ELSE r

(***************************************************************************)
(* timelock_utils.rs: the scriptint encoder                                *)
(***************************************************************************)
unsigned_abs(x) == IF IsNeg(x) THEN NegW(x) ELSE x

\* out[len] = b on the fixed [u8; 8]: an index beyond 7 panics in every build.
\* st is the encoder's state [out, len, abs, panic].
store(st, b) ==
    IF st.panic \/ st.len >= 8 THEN [st EXCEPT !.panic = TRUE]
    ELSE [st EXCEPT !.out[st.len + 1] = b, !.len = st.len + 1]

\* while abs > 0xFF { out[len] = (abs & 0xFF) as u8; len += 1; abs >>= 8; }
RECURSIVE write_loop(_)
write_loop(st) ==
    IF st.panic \/ ~GtFF(st.abs) THEN st
    ELSE LET w == store(st, BitAnd(st.abs[1], 255)) IN
         write_loop([w EXCEPT !.abs = Shr8(st.abs)])

write_scriptint_result(st) ==
    IF st.panic THEN [kind |-> "Panic", why |-> "index", out |-> st.out, len |-> st.len]
    ELSE [kind |-> "Ok", out |-> st.out, len |-> st.len]

write_scriptint_no_extra_byte(out, x) ==
    IF IsZeroW(x) THEN [kind |-> "Ok", out |-> out, len |-> 0]
    ELSE LET neg == IsNeg(x)
             st == write_loop([out |-> out, len |-> 0, abs |-> unsigned_abs(x),
                               panic |-> FALSE])
         IN  write_scriptint_result(
                 store(st, BitOr(st.abs[1], IF neg THEN 128 ELSE 0)))

write_scriptint(out, x) ==
    IF IsZeroW(x) THEN [kind |-> "Ok", out |-> out, len |-> 0]
    ELSE LET neg == IsNeg(x)
             st == write_loop([out |-> out, len |-> 0, abs |-> unsigned_abs(x),
                               panic |-> FALSE])
         IN  IF BitAnd(st.abs[1], 128) # 0
             THEN write_scriptint_result(
                      store(store(st, st.abs[1]), IF neg THEN 128 ELSE 0))
             ELSE write_scriptint_result(
                      store(st, BitOr(st.abs[1], IF neg THEN 128 ELSE 0)))

scriptint_vec(x) ==
    LET w == write_scriptint(<<0, 0, 0, 0, 0, 0, 0, 0>>, x) IN
    IF w.kind = "Panic" THEN Panic("index")
    ELSE Ok(SubSeq(w.out, 1, w.len))

(***************************************************************************)
(* parse_utils.rs: iter_words                                              *)
(***************************************************************************)
\* The white space characters that have no escape in a string.
VT == ""             \* U+000B, line tabulation
NEL == ""             \* U+0085, next line
NBSP == " "            \* U+00A0, no-break space
OGHAM_SPACE == " "     \* U+1680, ogham space mark

\* char::is_whitespace: the characters with the Unicode property White_Space,
\* U+0009..U+000D, U+0020, U+0085, U+00A0 and U+1680.  The others (U+2000 to
\* U+200A, U+2028, U+2029, U+202F, U+205F, U+3000) cannot be written in a
\* string of this module, so no text here contains them.
is_whitespace(c) ==
    c \in {"\t", "\n", VT, "\f", "\r", " ", NEL, NBSP, OGHAM_SPACE}

SetMin(S) == CHOOSE x \in S : \A y \in S : x <= y

\* The index of the first occurrence of pat in s, 0 if there is none.
find(s, pat) ==
    LET hits == {k \in 1..(Len(s) - Len(pat) + 1) :
                    SubSeq(s, k, k + Len(pat) - 1) = pat}
    IN  IF hits = {} THEN 0 ELSE SetMin(hits)

\* str::lines: split at each "\n", which is dropped together with a "\r"
\* right before it; what follows the last "\n" is a line unless it is empty.
RECURSIVE lines(_)
lines(s) ==
    IF s = "" THEN <<>>
    ELSE LET k == find(s, "\n") IN
         IF k = 0 THEN <<s>>
         ELSE LET line == SubSeq(s, 1, k - 1)
                  stripped == IF line # "" /\ SubSeq(line, Len(line), Len(line)) = "\r"
                              THEN SubSeq(line, 1, Len(line) - 1)
                              ELSE line
              IN  <<stripped>> \o lines(SubSeq(s, k + 1, Len(s)))

\* s.splitn(2, pat).next().unwrap(): s up to the first pat, all of s if none.
splitn2_first(s, pat) ==
    LET k == find(s, pat) IN
    IF k = 0 THEN s ELSE SubSeq(s, 1, k - 1)

\* s without its leading whitespace.
RECURSIVE skip_whitespace(_)
skip_whitespace(s) ==
    IF s = "" THEN ""
    ELSE IF is_whitespace(Head(s)) THEN skip_whitespace(Tail(s))
    ELSE s

\* str::split_whitespace: the runs of characters between whitespace.
RECURSIVE split_whitespace(_)
split_whitespace(s) ==
    LET t == skip_whitespace(s) IN
    IF t = "" THEN <<>>
    ELSE LET gaps == {k \in 1..Len(t) : is_whitespace(SubSeq(t, k, k))}
             e == IF gaps = {} THEN Len(t) + 1 ELSE SetMin(gaps)
         IN  <<SubSeq(t, 1, e - 1)>> \o split_whitespace(SubSeq(t, e, Len(t)))

line_content_hash_only(line) == splitn2_first(line, "#")

\* line.splitn(2, "#").next().unwrap().splitn(2, "//").next().unwrap()
line_content(line) == splitn2_first(splitn2_first(line, "#"), "//")

\* The words of line number line_idx (zero-based), each with its position.
line_words(line_idx, line) ==
    LET ws == split_whitespace(line_content(line)) IN
    [k \in 1..Len(ws) |-> [pos |-> <<line_idx, k - 1>>, word |-> ws[k]]]

RECURSIVE flat_map_lines(_, _)
flat_map_lines(ls, i) ==
    IF i > Len(ls) THEN <<>>
    ELSE line_words(i - 1, ls[i]) \o flat_map_lines(ls, i + 1)

iter_words(text) == flat_map_lines(lines(text), 1)

(***************************************************************************)
(* The collaborators of parse_asm: the opcode table (bitcoin_opcode_utils), *)
(* the hex iterator (hex_conservative), i64::from_str and the script       *)
(* Builder (bitcoin).                                                      *)
(***************************************************************************)
Char(s, i) == SubSeq(s, i, i)

\* The value of each hexadecimal digit, of either case.
HexValue ==
    [c \in {Char("0123456789abcdef", k) : k \in 1..16}
           \cup {Char("0123456789ABCDEF", k) : k \in 1..16} |->
        CHOOSE d \in 0..15 : Char("0123456789abcdef", d + 1) = c
                             \/ Char("0123456789ABCDEF", d + 1) = c]

\* The value of a hexadecimal digit, -1 for any other character.
hex_digit(c) == IF c \in DOMAIN HexValue THEN HexValue[c] ELSE -1

\* The value of a decimal digit, -1 for any other character.
dec_digit(c) ==
    IF c \in {Char("0123456789", k) : k \in 1..10} THEN HexValue[c] ELSE -1

\* The decimal numeral of a natural number.
RECURSIVE dec_str(_)
dec_str(k) ==
    IF k < 10 THEN Char("0123456789", k + 1)
    ELSE dec_str(k \div 10) \o Char("0123456789", (k % 10) + 1)

OP_PUSHBYTES_0 == 0
OP_PUSHBYTES_75 == 75
OP_PUSHDATA1_CODE == 76
OP_PUSHDATA2_CODE == 77
OP_PUSHDATA4_CODE == 78
OP_PUSHNUM_NEG1 == 79
OP_PUSHNUM_1 == 81
OP_DUP == 118
OP_CHECKSIG == 172

\* The opcode names the table knows, each with its byte.
OpcodeTable ==
    { [name |-> "OP_PUSHBYTES_" \o dec_str(k), code |-> k] :
        k \in OP_PUSHBYTES_0..OP_PUSHBYTES_75 }
    \cup { [name |-> "OP_PUSHDATA1", code |-> OP_PUSHDATA1_CODE],
           [name |-> "OP_PUSHDATA2", code |-> OP_PUSHDATA2_CODE],
           [name |-> "OP_PUSHDATA4", code |-> OP_PUSHDATA4_CODE],
           [name |-> "OP_PUSHNUM_NEG1", code |-> OP_PUSHNUM_NEG1],
           [name |-> "OP_PUSHNUM_1", code |-> OP_PUSHNUM_1],
           [name |-> "OP_DUP", code |-> OP_DUP],
           [name |-> "OP_CHECKSIG", code |-> OP_CHECKSIG] }

\* bitcoin_opcode_utils::from_str
from_str(word) ==
    LET rows == {r \in OpcodeTable : r.name = word} IN
    IF rows = {} THEN [ok |-> FALSE, op |-> -1]
    ELSE [ok |-> TRUE, op |-> (CHOOSE r \in rows : TRUE).code]

is_push_bytes(op) == op <= OP_PUSHBYTES_75
is_push_data(op) == op \in {OP_PUSHDATA1_CODE, OP_PUSHDATA2_CODE, OP_PUSHDATA4_CODE}

\* i64::from_str: an optional sign, then one or more decimal digits, the value
\* within the range of i64.  acc is the magnitude read so far, as a u64.
RECURSIVE dec_magnitude(_, _, _)
dec_magnitude(s, i, acc) ==
    IF i > Len(s) THEN [ok |-> TRUE, val |-> acc]
    ELSE LET d == dec_digit(Char(s, i)) IN
         IF d < 0 THEN [ok |-> FALSE, val |-> acc]
         ELSE LET mul[k \in 1..9] ==
                      IF k = 1 THEN acc[1] * 10 + d
                      ELSE IF k = 9 THEN mul[8] \div 256
                      ELSE acc[k] * 10 + (mul[k - 1] \div 256)
              IN  IF mul[9] # 0 THEN [ok |-> FALSE, val |-> acc]
                  ELSE dec_magnitude(s, i + 1, Tup([k \in 1..8 |-> mul[k] % 256]))

i64_from_str(s) ==
    LET signed == s # "" /\ Char(s, 1) \in {"+", "-"}
        neg == s # "" /\ Char(s, 1) = "-"
        digits == IF signed THEN SubSeq(s, 2, Len(s)) ELSE s
        m == dec_magnitude(digits, 1, Zero64)
    IN  IF digits = "" \/ ~m.ok THEN [ok |-> FALSE, val |-> Zero64]
        ELSE IF neg
             THEN IF m.val[8] < 128 \/ m.val = I64_MIN
                  THEN [ok |-> TRUE, val |-> NegW(m.val)]
                  ELSE [ok |-> FALSE, val |-> Zero64]
             ELSE IF m.val[8] < 128 THEN [ok |-> TRUE, val |-> m.val]
                  ELSE [ok |-> FALSE, val |-> Zero64]

\* Builder::push_opcode
push_opcode(script, op) == Append(script, op)

\* Builder::push_slice: the shortest push of data.
push_slice(script, data) ==
    LET len == Len(data) IN
    IF len < OP_PUSHDATA1_CODE THEN script \o <<len>> \o data
    ELSE IF len < 256 THEN script \o <<OP_PUSHDATA1_CODE, len>> \o data
    ELSE IF len < 65536
         THEN script \o <<OP_PUSHDATA2_CODE, len % 256, len \div 256>> \o data
         ELSE script \o <<OP_PUSHDATA4_CODE, len % 256, (len \div 256) % 256,
                          (len \div 65536) % 256, len \div 16777216>> \o data

\* Builder::push_int: an opcode for -1 and 0..16, else a push of the scriptint
\* bytes, written by the same encoder into a [u8; 8].
push_int(script, x) ==
    IF x = I64(-1) THEN Ok(push_opcode(script, OP_PUSHNUM_NEG1))
    ELSE IF \E k \in 1..16 : x = I64(k)
         THEN Ok(push_opcode(script, OP_PUSHNUM_1 + x[1] - 1))
    ELSE IF x = Zero64 THEN Ok(push_opcode(script, OP_PUSHBYTES_0))
    ELSE LET e == scriptint_vec(x) IN
         IF e.kind = "Panic" THEN e ELSE Ok(push_slice(script, e.val))

(***************************************************************************)
(* parse_utils.rs: try_parse_raw_hex and the steps of parse_asm            *)
(***************************************************************************)
\* for item in iter { ... buf.push(item) }: the bytes of the pairs of digits
\* are pushed onto b one by one, up to the first pair that is no byte.
hex_iter(hex, b) ==
    LET pairs == Len(hex) \div 2
        byte(k) == 16 * hex_digit(SubSeq(hex, 2 * k - 1, 2 * k - 1))
                   + hex_digit(SubSeq(hex, 2 * k, 2 * k))
        bad == {k \in 1..pairs : hex_digit(SubSeq(hex, 2 * k - 1, 2 * k - 1)) < 0
                                 \/ hex_digit(SubSeq(hex, 2 * k, 2 * k)) < 0}
        good == IF bad = {} THEN pairs ELSE SetMin(bad) - 1
    IN  [ok |-> bad = {}, buf |-> b \o [k \in 1..good |-> byte(k)]]

try_parse_raw_hex_no_clear(hex, b) ==
    IF Len(hex) % 2 = 1 THEN [ok |-> FALSE, buf |-> b]
    ELSE hex_iter(hex, b)

\* The buffer is cleared first; HexToBytesIter::new refuses an odd length.
try_parse_raw_hex(hex, b) ==
    IF Len(hex) % 2 = 1 THEN [ok |-> FALSE, buf |-> <<>>]
    ELSE hex_iter(hex, <<>>)

\* The opcode of the shortest push of n bytes, -1 when there is none.
expected_push_op(len) ==
    IF len < OP_PUSHDATA1_CODE THEN len
    ELSE IF len < 256 THEN OP_PUSHDATA1_CODE
    ELSE IF len < 65536 THEN OP_PUSHDATA2_CODE
    ELSE IF len \div 65536 < 65536 THEN OP_PUSHDATA4_CODE
    ELSE -1

\* if word.starts_with('<') && word.ends_with('>') { word = &word[1..word.len()-1] }
strip_brackets(word) ==
    IF word # "" /\ Char(word, 1) = "<" /\ Char(word, Len(word)) = ">"
    THEN SubSeq(word, 2, Len(word) - 1)
    ELSE word

\* if word.starts_with("0x") { word = &word[2..] }
strip_0x(word) ==
    IF Len(word) >= 2 /\ SubSeq(word, 1, 2) = "0x"
    THEN SubSeq(word, 3, Len(word))
    ELSE word

ParseError(position, kind) == Err([position |-> position, kind |-> kind])

(***************************************************************************)
(* Inputs.                                                                 *)
(***************************************************************************)
MaxSliceLen == 9     \* longest byte slice handed to the decoders
MaxSizeArg == 9      \* largest max_size handed to the decoders
MaxSmallInt == 17    \* the integers -MaxSmallInt..MaxSmallInt are all encoded

MaxWords == 3        \* most words in an assembly text

RECURSIVE Rep(_, _)
Rep(s, k) ==
    IF k = 0 THEN ""
    ELSE LET half == Rep(s, k \div 2) IN
         IF k % 2 = 0 THEN half \o half ELSE half \o half \o s

\* Operands of 76 and of 256 bytes: the shortest that need PUSHDATA1, PUSHDATA2.
Hex76 == Rep("ab", 76)
Hex256 == Rep("cd", 256)

\* The words the first two places of a text are taken from.
Vocab ==
    { "OP_0", "OP_DUP", "OP_PUSHBYTES_1", "OP_PUSHBYTES_2", "OP_PUSHDATA1",
      "OP_PUSHDATA2",
      "ff", "abcd", "f", "0xff", "<0xff>", Hex76, Hex256,
      "5", "<5>", "10", "-1", "0", "-255",
      "9223372036854775807", "-9223372036854775808", "99999999999999999999",
      "deadbeefgg" }

\* The words of the later places.
TailVocab == {"ff", "zz"}

Separators == {" ", "\n", "\f"}

\* The texts of exactly k words.
RECURSIVE TextsOf(_)
TextsOf(k) ==
    IF k = 0 THEN {""}
    ELSE IF k = 1 THEN Vocab
    ELSE IF k = 2 THEN {a \o sep \o b : a \in Vocab, sep \in Separators, b \in Vocab}
    ELSE {t \o sep \o w : t \in TextsOf(k - 1), sep \in Separators, w \in TailVocab}

AsmInputs == UNION {TextsOf(k) : k \in 0..MaxWords}

MaxTextLen == 5      \* longest text handed to iter_words alone

TextAlphabet == {"a", " ", "\n", "\r", "\f", NEL, "#", "/"}

RECURSIVE StringsUpTo(_)
StringsUpTo(k) ==
    IF k = 0 THEN {""}
    ELSE LET shorter == StringsUpTo(k - 1) IN
         shorter \cup {t \o c : t \in shorter, c \in TextAlphabet}

ByteSamples == {0, 127, 128, 129, 255}
FillSamples == {0, 255}

\* Slices: every choice of the two most significant bytes, the rest one filler.
SliceInputs ==
    UNION { { [i \in 1..L |-> IF i = L THEN last
                              ELSE IF i = L - 1 THEN prev ELSE fill] :
                last \in ByteSamples, prev \in ByteSamples, fill \in FillSamples }
            : L \in 0..MaxSliceLen }

\* Magnitudes of 1 to 8 bytes around the sign-bit boundary of each length.
MagSamples ==
    { [i \in 1..8 |-> IF i < L THEN fill ELSE IF i = L THEN top ELSE 0] :
        L \in 1..8, top \in {1, 127, 128, 255}, fill \in FillSamples }

IntInputs ==
    {Zero64, I64_MAX, I64_MIN}
    \cup { m \in MagSamples : ~IsNeg(m) }
    \cup { NegW(m) : m \in { x \in MagSamples : ~IsNeg(x) \/ x = I64_MIN } }
    \cup { I64(k) : k \in (0 - MaxSmallInt)..MaxSmallInt }

\* from_num's inputs: bits 0-15, 16-23, 24-31 and 32-63 chosen apart.
LockInputs ==
    { <<lo[1], lo[2], b3, b4, hi[1], hi[2], hi[3], hi[4]>> :
        lo \in {<<5, 0>>, <<0, 0>>, <<255, 255>>, <<0, 1>>},
        b3 \in {0, 63, 64, 191, 255},
        b4 \in {0, 127, 128, 255},
        hi \in {<<0, 0, 0, 0>>, <<1, 0, 0, 0>>, <<0, 0, 0, 128>>,
                <<255, 255, 255, 255>>} }

NoRet == [kind |-> "None"]

AsmIdle ==
    /\ asm = ""
    /\ words = <<>>
    /\ cursor = 0
    /\ builder = <<>>
    /\ buf = <<>>

CodecIdle ==
    /\ n = Zero64
    /\ v = <<>>
    /\ max_size = 0
    /\ minimal = FALSE
    /\ overflow_checks = FALSE
    /\ item = <<>>

(***************************************************************************)
(* The scriptint codec as a state machine: a run picks a function and its  *)
(* arguments, then calls it.                                               *)
(***************************************************************************)
InitCodec ==
    /\ AsmIdle
    /\ pc = "ready"
    /\ item = <<>>
    /\ ret = NoRet
    /\ overflow_checks \in BOOLEAN
    /\ \/ /\ call \in {"write_scriptint", "roundtrip"}
          /\ n \in IntInputs
          /\ v = <<>>
          /\ max_size = 4
          /\ minimal = TRUE
       \/ /\ call \in {"read_scriptint", "read_scriptint_size"}
          /\ n = Zero64
          /\ v \in SliceInputs
          /\ max_size \in 0..MaxSizeArg
          /\ minimal \in BOOLEAN

CallWriteScriptint ==
    /\ pc = "ready"
    /\ call = "write_scriptint"
    /\ ret' = write_scriptint(<<0, 0, 0, 0, 0, 0, 0, 0>>, n)
    /\ pc' = "done"
    /\ UNCHANGED <<call, codecVars, asmVars>>

\* The round trip's first half: item = scriptint_vec(n).
CallScriptintVec ==
    /\ pc = "ready"
    /\ call = "roundtrip"
    /\ LET r == scriptint_vec(n) IN
       /\ ret' = r
       /\ item' = IF r.kind = "Ok" THEN r.val ELSE item
       /\ pc' = IF r.kind = "Ok" THEN "encoded" ELSE "done"
    /\ UNCHANGED <<call, n, v, max_size, minimal, overflow_checks, asmVars>>

\* The round trip's second half: read_scriptint(item, 4, true).
CallReadBack ==
    /\ pc = "encoded"
    /\ ret' = read_scriptint(item, max_size, minimal, overflow_checks)
    /\ pc' = "done"
    /\ UNCHANGED <<call, codecVars, asmVars>>

CallReadScriptintSize ==
    /\ pc = "ready"
    /\ call = "read_scriptint_size"
    /\ ret' = read_scriptint_size(v, max_size, minimal, overflow_checks)
    /\ pc' = "done"
    /\ UNCHANGED <<call, codecVars, asmVars>>

CallReadScriptint ==
    /\ pc = "ready"
    /\ call = "read_scriptint"
    /\ ret' = read_scriptint(v, max_size, minimal, overflow_checks)
    /\ pc' = "done"
    /\ UNCHANGED <<call, codecVars, asmVars>>

NextCodec ==
    \/ CallWriteScriptint
    \/ CallScriptintVec
    \/ CallReadBack
    \/ CallReadScriptintSize
    \/ CallReadScriptint

SpecCodec == InitCodec /\ [][NextCodec]_vars

(***************************************************************************)
(* The relative lock time decoder as a state machine.                      *)
(***************************************************************************)
InitLock ==
    /\ AsmIdle
    /\ pc = "ready"
    /\ call = "from_num"
    /\ n \in LockInputs
    /\ v = <<>>
    /\ max_size = 0
    /\ minimal = FALSE
    /\ overflow_checks = FALSE
    /\ item = <<>>
    /\ ret = NoRet

CallFromNum ==
    /\ pc = "ready"
    /\ call = "from_num"
    /\ ret' = from_num(n)
    /\ pc' = "done"
    /\ UNCHANGED <<call, codecVars, asmVars>>

NextLock == CallFromNum

SpecLock == InitLock /\ [][NextLock]_vars

(***************************************************************************)
(* iter_words alone, as a state machine.                                   *)
(***************************************************************************)
InitWords ==
    /\ CodecIdle
    /\ call = "iter_words"
    /\ pc = "ready"
    /\ ret = NoRet
    /\ asm \in StringsUpTo(MaxTextLen)
    /\ words = <<>>
    /\ cursor = 0
    /\ builder = <<>>
    /\ buf = <<>>

CallIterWords ==
    /\ pc = "ready"
    /\ call = "iter_words"
    /\ words' = iter_words(asm)
    /\ pc' = "done"
    /\ UNCHANGED <<call, codecVars, ret, asm, cursor, builder, buf>>

NextWords == CallIterWords

SpecWords == InitWords /\ [][NextWords]_vars

(***************************************************************************)
(* parse_asm as a state machine: one step for each turn of its loop.       *)
(***************************************************************************)
InitAsm ==
    /\ CodecIdle
    /\ call = "parse_asm"
    /\ pc = "start"
    /\ ret = NoRet
    /\ asm \in AsmInputs
    /\ words = <<>>
    /\ cursor = 0
    /\ builder = <<>>
    /\ buf = <<>>

\* let mut buf = ...; let mut builder = Builder::new(); let mut words = iter_words(asm);
Begin ==
    /\ pc = "start"
    /\ call = "parse_asm"
    /\ words' = iter_words(asm)
    /\ cursor' = 0
    /\ builder' = <<>>
    /\ buf' = <<>>
    /\ pc' = "loop"
    /\ UNCHANGED <<call, codecVars, ret, asm>>

\* words.next() yields a word.
HasWord == pc = "loop" /\ cursor < Len(words)
Cur == words[cursor + 1]

\* The step returns early with a value: the loop is over.
Return(r) ==
    /\ ret' = r
    /\ pc' = "done"

\* The step ends in `continue`, or falls off the end of the loop's body.
Continue ==
    /\ pc' = "loop"
    /\ ret' = ret

\* if word == "OP_0"
StepOp0 ==
    /\ HasWord
    /\ Cur.word = "OP_0"
    /\ builder' = push_opcode(builder, OP_PUSHBYTES_0)
    /\ cursor' = cursor + 1
    /\ Continue
    /\ UNCHANGED <<call, codecVars, asm, words, buf>>

\* The operand of a push opcode: try_parse_raw_hex(push, &mut buf).
operand_hex_lenient(push, b) == try_parse_raw_hex(strip_0x(strip_brackets(push)), b)

operand_hex(push, b) == try_parse_raw_hex(push, b)

\* if let Ok(op) = from_str(word), op a push opcode
StepPushOpcode ==
    /\ HasWord
    /\ Cur.word # "OP_0"
    /\ from_str(Cur.word).ok
    /\ LET op == from_str(Cur.word).op IN
       /\ is_push_bytes(op) \/ is_push_data(op)
       /\ IF cursor + 2 > Len(words)
          THEN /\ Return(ParseError(Cur.pos, "UnexpectedEOF"))
               /\ cursor' = cursor + 1
               /\ UNCHANGED <<builder, buf>>
          ELSE LET next == words[cursor + 2]
                   h == operand_hex(next.word, buf)
                   expected == expected_push_op(Len(h.buf))
               IN  /\ cursor' = cursor + 2
                   /\ buf' = h.buf
                   /\ IF ~h.ok
                      THEN Return(ParseError(next.pos, "InvalidHex")) /\ builder' = builder
                      ELSE IF expected = -1
                      THEN Return(ParseError(next.pos, "PushExceedsMaxSize"))
                           /\ builder' = builder
                      ELSE IF op # expected
                      THEN Return(ParseError(Cur.pos, "NonMinimalBytePush"))
                           /\ builder' = builder
                      ELSE Continue /\ builder' = push_slice(builder, h.buf)
    /\ UNCHANGED <<call, codecVars, asm, words>>

\* if let Ok(op) = from_str(word), op no push opcode
StepOpcode ==
    /\ HasWord
    /\ Cur.word # "OP_0"
    /\ from_str(Cur.word).ok
    /\ LET op == from_str(Cur.word).op IN
       /\ ~(is_push_bytes(op) \/ is_push_data(op))
       /\ builder' = push_opcode(builder, op)
    /\ cursor' = cursor + 1
    /\ Continue
    /\ UNCHANGED <<call, codecVars, asm, words, buf>>

\* Not an opcode: the word is one of the remaining three kinds.
NotOpcode == HasWord /\ Cur.word # "OP_0" /\ ~from_str(Cur.word).ok

\* What a word that is no opcode resolves to: "number", "hex" or "unknown",
\* with the number, or the outcome of the hex decoding into the buffer b.
resolve(word, b) ==
    LET core == strip_brackets(word)
        num == i64_from_str(core)
        h == try_parse_raw_hex(strip_0x(core), b)
    IN  IF num.ok THEN [kind |-> "number", num |-> num.val, hex |-> h]
        ELSE IF h.ok THEN [kind |-> "hex", num |-> Zero64, hex |-> h]
        ELSE [kind |-> "unknown", num |-> Zero64, hex |-> h]

\* if let Ok(i) = i64::from_str(&word) { builder = builder.push_int(i); continue; }
StepNumber ==
    /\ NotOpcode
    /\ resolve(Cur.word, buf).kind = "number"
    /\ LET r == push_int(builder, resolve(Cur.word, buf).num) IN
       IF r.kind = "Panic"
       THEN Return(r) /\ builder' = builder
       ELSE Continue /\ builder' = r.val
    /\ cursor' = cursor + 1
    /\ UNCHANGED <<call, codecVars, asm, words, buf>>

\* if try_parse_raw_hex(word, &mut buf) { ... builder.push_slice(push) }
StepHex ==
    /\ NotOpcode
    /\ resolve(Cur.word, buf).kind = "hex"
    /\ buf' = resolve(Cur.word, buf).hex.buf
    /\ builder' = push_slice(builder, buf')
    /\ cursor' = cursor + 1
    /\ Continue
    /\ UNCHANGED <<call, codecVars, asm, words>>

\* else { return Err(err(pos, AsmParseErrorKind::UnknownInstruction)); }
StepUnknown ==
    /\ NotOpcode
    /\ resolve(Cur.word, buf).kind = "unknown"
    /\ buf' = resolve(Cur.word, buf).hex.buf
    /\ Return(ParseError(Cur.pos, "UnknownInstruction"))
    /\ cursor' = cursor + 1
    /\ UNCHANGED <<call, codecVars, asm, words, builder>>

\* words.next() yields nothing: Ok(builder.into_script())
Finish ==
    /\ pc = "loop"
    /\ cursor = Len(words)
    /\ Return(Ok(builder))
    /\ UNCHANGED <<call, codecVars, asm, words, cursor, builder, buf>>

NextAsm ==
    \/ Begin
    \/ StepOp0
    \/ StepPushOpcode
    \/ StepOpcode
    \/ StepNumber
    \/ StepHex
    \/ StepUnknown
    \/ Finish

SpecAsm == InitAsm /\ [][NextAsm]_vars

(***************************************************************************)
(* Reference definitions the claims are stated with.                       *)
(***************************************************************************)
\* |x| <= 0x7FFFFFFF, read off the two's complement bytes of x.
InRange32(x) ==
    \/ (\A i \in 5..8 : x[i] = 0) /\ x[4] < 128
    \/ /\ \A i \in 5..8 : x[i] = 255
       /\ x[4] >= 128
       /\ <<x[1], x[2], x[3], x[4]>> # <<0, 0, 0, 128>>

\* The bytes of |x|, least significant first, as an unsigned 64-bit number.
Magnitude(x) == IF x[8] >= 128 THEN NegW(x) ELSE x

\* The number of bytes of m up to its most significant non-zero byte.
Significant(m) ==
    IF \A i \in 1..Len(m) : m[i] = 0 THEN 0
    ELSE CHOOSE k \in 1..Len(m) : m[k] # 0 /\ \A j \in (k + 1)..Len(m) : m[j] = 0

\* The minimal sign-magnitude encoding of x, as claim C6 words it.
MinimalEncoding(x) ==
    LET m == Magnitude(x)
        k == Significant(m)
        sign == IF x[8] >= 128 THEN 128 ELSE 0
    IN  IF k = 0 THEN <<>>
        ELSE IF m[k] >= 128 THEN SubSeq(m, 1, k) \o <<sign>>
        ELSE SubSeq(m, 1, k - 1) \o <<m[k] + sign>>

\* The value of a non-empty slice of at most 8 bytes, as claim C10 words it:
\* the little-endian magnitude without the top bit of the last byte, negated
\* when that bit is set.
DecodedValue(s) ==
    LET m == [i \in 1..8 |-> IF i < Len(s) THEN s[i]
                             ELSE IF i = Len(s) THEN s[i] % 128 ELSE 0]
    IN  IF s[Len(s)] >= 128 THEN NegW(m) ELSE Tup(m)

\* The slice fails the minimality check, as claim C3 words it.
NonMinimal(s) ==
    /\ s[Len(s)] % 128 = 0
    /\ (Len(s) <= 1 \/ s[Len(s) - 1] < 128)

(***************************************************************************)
(* Claims about the scriptint codec (SpecCodec).                           *)
(***************************************************************************)
\* C1: for every n with |n| <= 0x7FFFFFFF, scriptint_vec(n) is at most 4 bytes
\* long and read_scriptint of it with size 4 and minimal = true returns Ok(n).
C1_RoundTrip ==
    (call = "roundtrip" /\ InRange32(n)) =>
        /\ pc = "encoded" => (ret.kind = "Ok" /\ item = ret.val /\ Len(item) <= 4)
        /\ pc = "done" => (Len(item) <= 4 /\ ret = Ok(n))

\* A negative number of four bytes made the round trip.
C1_Witness ==
    /\ call = "roundtrip"
    /\ pc = "done"
    /\ InRange32(n)
    /\ n[8] >= 128
    /\ Len(item) = 4
    /\ ret = Ok(n)

\* C3: with max_size <= 8 the outcome is NumericOverflow when the slice is
\* longer than max_size, else Ok(0) when it is empty, else NonMinimalPush when
\* minimal is set and the slice fails the minimality check, else Ok;
\* read_scriptint gives the same with the two errors renamed.
C3_OutcomeOrder ==
    (pc = "done" /\ call \in {"read_scriptint_size", "read_scriptint"}
                 /\ max_size <= 8) =>
        LET same == call = "read_scriptint_size" IN
        IF Len(v) > max_size
        THEN ret = Err(IF same THEN "NumericOverflow" ELSE "ScriptIntNumericOverflow")
        ELSE IF v = <<>> THEN ret = Ok(Zero64)
        ELSE IF minimal /\ NonMinimal(v)
             THEN ret = Err(IF same THEN "NonMinimalPush" ELSE "MinimalData")
             ELSE ret.kind = "Ok"

\* C5: write_scriptint returns normally for every i64, with a length of 0 to
\* 8, and so does scriptint_vec, with at most 8 bytes.
C5_WriteNeverAborts ==
    /\ (call = "write_scriptint" /\ pc = "done") =>
           (ret.kind = "Ok" /\ ret.len \in 0..8)
    /\ (call = "roundtrip" /\ pc # "ready") =>
           (ret.kind # "Panic" /\ Len(item) <= 8)

\* C6: write_scriptint writes the minimal sign-magnitude encoding of n.
C6_MinimalEncoding ==
    (call = "write_scriptint" /\ pc = "done") =>
        (ret.kind = "Ok" /\ SubSeq(ret.out, 1, ret.len) = MinimalEncoding(n))

\* C10: a non-empty slice of at most max_size <= 8 bytes that the minimality
\* check does not reject decodes, without abort, to its sign-magnitude value.
C10_DecodedValue ==
    (pc = "done" /\ call = "read_scriptint_size" /\ v # <<>>
                 /\ Len(v) <= max_size /\ max_size <= 8
                 /\ ~(minimal /\ NonMinimal(v))) =>
        ret = Ok(DecodedValue(v))

(***************************************************************************)
(* Claims about the lock time decoder (SpecLock).                          *)
(***************************************************************************)
\* C2: from_num returns nothing exactly when num < 0, num > 0xFFFFFFFF or bit
\* 31 is set; otherwise the payload is num mod 2^16, tagged Time when bit 22
\* is set and Height when it is clear, whatever the other bits are.
C2_FromNum ==
    (call = "from_num" /\ pc = "done") =>
        LET negative == n[8] >= 128
            tooBig == ~negative /\ \E i \in 5..8 : n[i] # 0
            bit31 == (n[4] \div 128) % 2 = 1
            bit22 == (n[3] \div 64) % 2 = 1
        IN  IF negative \/ tooBig \/ bit31
            THEN ret = [kind |-> "None"]
            ELSE ret = [kind |-> "Some",
                        tag |-> IF bit22 THEN "Time" ELSE "Height",
                        value |-> n[1] + 256 * n[2]]

\* from_num(0x00FF0005), bits 16 to 23 all set, gave Time(5).
C2_Witness ==
    /\ call = "from_num"
    /\ pc = "done"
    /\ n = <<5, 0, 255, 0, 0, 0, 0, 0>>
    /\ ret = [kind |-> "Some", tag |-> "Time", value |-> 5]

(***************************************************************************)
(* Reference definitions for the claims about the text side.               *)
(***************************************************************************)
HexChars ==
    {"0", "1", "2", "3", "4", "5", "6", "7", "8", "9",
     "a", "b", "c", "d", "e", "f", "A", "B", "C", "D", "E", "F"}

\* w is strict hex: an even number of hexadecimal digits and nothing else.
StrictHex(w) ==
    /\ Len(w) % 2 = 0
    /\ \A k \in 1..Len(w) : SubSeq(w, k, k) \in HexChars

\* The bytes a strict hex word stands for.
HexBytes(w) ==
    [k \in 1..(Len(w) \div 2) |->
        16 * HexValue[SubSeq(w, 2 * k - 1, 2 * k - 1)] + HexValue[SubSeq(w, 2 * k, 2 * k)]]

\* The minimal push opcode for L bytes, as claim C4 words it (L < 2^31 here).
MinimalPushOpcode(L) ==
    IF L < 76 THEN L ELSE IF L < 256 THEN 76 ELSE IF L < 65536 THEN 77 ELSE 78

\* The minimal push of data: the length header, then the bytes.
MinimalPush(data) ==
    LET L == Len(data) IN
    (IF L < 76 THEN <<L>>
     ELSE IF L < 256 THEN <<76, L>>
     ELSE <<77, L % 256, L \div 256>>) \o data

\* The minimal integer push of x: an opcode for -1 and 0 to 16, else a push
\* of the minimal scriptint encoding.
MinimalIntPush(x) ==
    IF x = Zero64 THEN <<0>>
    ELSE IF x = I64(-1) THEN <<79>>
    ELSE IF \E k \in 1..16 : x = I64(k) THEN <<80 + x[1]>>
    ELSE MinimalPush(MinimalEncoding(x))

\* w without one enclosing pair of angle brackets, if it has one.
StripOnePair(w) ==
    IF Len(w) >= 2 /\ SubSeq(w, 1, 1) = "<" /\ SubSeq(w, Len(w), Len(w)) = ">"
    THEN SubSeq(w, 2, Len(w) - 1) ELSE w

\* w without a leading "0x", if it has one.
StripPrefix0x(w) ==
    IF Len(w) >= 2 /\ SubSeq(w, 1, 1) = "0" /\ SubSeq(w, 2, 2) = "x"
    THEN SubSeq(w, 3, Len(w)) ELSE w

\* The current word resolves to a byte-push or push-data opcode.
AtPushWord ==
    /\ HasWord
    /\ Cur.word # "OP_0"
    /\ from_str(Cur.word).ok
    /\ from_str(Cur.word).op <= 78

(***************************************************************************)
(* Claims about iter_words (SpecWords).                                    *)
(***************************************************************************)
\* The zero-based line of the character at offset i: the newlines before it.
LineOf(t, i) == Cardinality({j \in 1..(i - 1) : SubSeq(t, j, j) = "\n"})

\* Offset j starts a comment marker: a '#', or the first '/' of a "//".
MarkerAt(t, j) ==
    \/ SubSeq(t, j, j) = "#"
    \/ j < Len(t) /\ SubSeq(t, j, j + 1) = "//"

\* Whitespace as Unicode has it (the property White_Space).
White_Space == {"\t", "\n", VT, "\f", "\r", " ", NEL, NBSP, OGHAM_SPACE}

\* The character at offset i belongs to a word: it is no whitespace and no
\* marker starts at or before it on its line.
InWord(t, i) ==
    /\ SubSeq(t, i, i) \notin White_Space
    /\ ~\E j \in 1..i : MarkerAt(t, j) /\ LineOf(t, j) = LineOf(t, i)

\* The maximal runs of word characters, as <<first offset, last offset>>.
WordRuns(t) ==
    {r \in (1..Len(t)) \X (1..Len(t)) :
        /\ r[1] <= r[2]
        /\ \A i \in r[1]..r[2] : InWord(t, i)
        /\ r[1] = 1 \/ ~InWord(t, r[1] - 1)
        /\ r[2] = Len(t) \/ ~InWord(t, r[2] + 1)}

\* C8: iter_words yields, in order of line and of place in the line, exactly
\* the maximal non-whitespace substrings of what each line holds before its
\* first '#' or "//", each with its zero-based line number (every line
\* counted) and its zero-based number among the words kept on its line.
C8_IterWords ==
    (call = "iter_words" /\ pc = "done") =>
        LET runs == WordRuns(asm) IN
        /\ Len(words) = Cardinality(runs)
        /\ \A r \in runs :
              LET before == {q \in runs : q[1] < r[1]}
                  sameLine == {q \in before : LineOf(asm, q[1]) = LineOf(asm, r[1])}
              IN  words[Cardinality(before) + 1] =
                      [pos |-> <<LineOf(asm, r[1]), Cardinality(sameLine)>>,
                       word |-> SubSeq(asm, r[1], r[2])]

\* A word on the second line, cut by a "//" inside it, after an empty line.
C8_Witness ==
    /\ call = "iter_words"
    /\ pc = "done"
    /\ asm = "\na//a"
    /\ words = << [pos |-> <<1, 0>>, word |-> "a"] >>

(***************************************************************************)
(* Claims about parse_asm (SpecAsm).                                       *)
(***************************************************************************)
C4_Step ==
    (AtPushWord /\ cursor + 2 <= Len(words) /\ StrictHex(words[cursor + 2].word)) =>
        LET op == from_str(Cur.word).op
            data == HexBytes(words[cursor + 2].word)
        IN  IF op # MinimalPushOpcode(Len(data))
            THEN pc' = "done" /\ ret' = ParseError(Cur.pos, "NonMinimalBytePush")
            ELSE /\ pc' = "loop"
                 /\ ret' = ret
                 /\ builder' = builder \o MinimalPush(data)

\* C4: a push opcode followed by a strict-hex operand of L bytes fails with
\* NonMinimalBytePush at the opcode's position when it is not the minimal push
\* opcode for L, and otherwise extends the script by the minimal push of
\* exactly the operand's bytes, whatever was parsed before.
C4_PushMinimality == [][C4_Step]_vars

\* A push after a hex word that had filled the scratch buffer.
C4_Witness ==
    /\ call = "parse_asm"
    /\ pc = "done"
    /\ asm = "abcd OP_PUSHBYTES_1 ff"
    /\ ret = Ok(<<2, 171, 205, 1, 255>>)

C7_Step ==
    /\ AtPushWord =>
         IF cursor + 1 = Len(words)
         THEN pc' = "done" /\ ret' = ParseError(Cur.pos, "UnexpectedEOF")
         ELSE LET next == words[cursor + 2] IN
              IF ~StrictHex(next.word)
              THEN pc' = "done" /\ ret' = ParseError(next.pos, "InvalidHex")
              ELSE /\ cursor' = cursor + 2
                   /\ pc' = "done" => (ret'.kind = "Err" /\ ret'.err.position = Cur.pos)
    /\ (pc = "loop" /\ pc' = "done" /\ ret'.kind = "Err") =>
         /\ cursor < Len(words)
         /\ \A k \in 1..cursor : words[k].pos # ret'.err.position
         /\ \E k \in (cursor + 1)..cursor' : words[k].pos = ret'.err.position

\* C7: a push opcode takes exactly the next word as its operand, also from a
\* later line, read as strict hex only: InvalidHex at the operand when it is
\* not, UnexpectedEOF at the opcode when there is none; the word after the
\* operand starts a fresh instruction, and an error returned is that of the
\* first word, in order, that fails.
C7_PushOperand == [][C7_Step]_vars

\* An operand on the next line with a 0x prefix is refused where it stands.
C7_Witness ==
    /\ call = "parse_asm"
    /\ pc = "done"
    /\ asm = "OP_PUSHBYTES_1\n0xff"
    /\ ret = ParseError(<<1, 0>>, "InvalidHex")

C9_Step ==
    /\ (HasWord /\ Cur.word = "OP_0") =>
           (pc' = "loop" /\ builder' = builder \o <<0>>)
    /\ (HasWord /\ Cur.word # "OP_0" /\ ~from_str(Cur.word).ok) =>
           LET core == StripOnePair(Cur.word)
               num == i64_from_str(core)
               hex == StripPrefix0x(core)
           IN  IF num.ok
               THEN pc' = "loop" /\ builder' = builder \o MinimalIntPush(num.val)
               ELSE IF StrictHex(hex)
               THEN pc' = "loop" /\ builder' = builder \o MinimalPush(HexBytes(hex))
               ELSE pc' = "done" /\ ret' = ParseError(Cur.pos, "UnknownInstruction")

\* C9: "OP_0" emits the byte 0; a word that is no opcode loses one enclosing
\* pair of angle brackets, then is a minimal integer push if it is a decimal
\* i64, else loses a leading "0x" and is a minimal data push if it is strict
\* hex, else fails with UnknownInstruction at its position.
C9_WordResolution == [][C9_Step]_vars

====
